---- MODULE Spec2Model ----
(***************************************************************************)
(* Model of the Rust enum generator, compiler/rust/enum.cc:                *)
(*   camelToSnakeCase, screamingSnakeToUpperCamelCase, enumValues and      *)
(*   GenerateEnumDefinition, together with the conversions of the code it  *)
(*   emits (TryFrom<i32> / From<i32> and From<Enum> for i32).              *)
(*                                                                         *)
(* Strings are sequences of ASCII codes, so that the character classes and *)
(* case conversions of absl/strings/ascii.h are arithmetic on the codes:   *)
(*   '_' = 95, '-' = 45, '|' = 124, '0'..'9' = 48..57,                     *)
(*   'A'..'Z' = 65..90, 'a'..'z' = 97..122.                                *)
(***************************************************************************)
EXTENDS Integers, Sequences, FiniteSets, TLC

VARIABLES
    desc,            \* the EnumDescriptor: [name, values, is_closed]
    pc,              \* position in GenerateEnumDefinition / the generated code
    i,               \* loop index of enumValues
    result,          \* std::vector<RustEnumValue> result
    capacity,        \* result.capacity()
    epoch,           \* number of reallocations of result's buffer
    seen_by_name,    \* flat_hash_set<std::string>
    seen_by_number,  \* flat_hash_map<int32_t, RustEnumValue*>
    outcome,         \* branch taken for each declared value, in order
    sink,            \* the output sink: the blocks emitted so far
    sink0,           \* the sink's content when GenerateEnumDefinition was called
    conv_in,         \* argument of the generated integer-to-enum conversion
    conv,            \* its result
    back,            \* result of the generated enum-to-integer conversion
    fn_pc,           \* which normalizer function was applied
    fn_in,           \* its input string
    fn_enum,         \* the enum name whose prefixes were stripped
    fn_match,        \* index of the prefix that matched (0: none)
    fn_base,         \* base_value_name after stripping and the fallback
    fn_out           \* its output string

vars == <<desc, pc, i, result, capacity, epoch, seen_by_name, seen_by_number,
          outcome, sink, sink0, conv_in, conv, back,
          fn_pc, fn_in, fn_enum, fn_match, fn_base, fn_out>>

genVars == <<desc, pc, i, result, capacity, epoch, seen_by_name,
             seen_by_number, outcome, sink, sink0, conv_in, conv, back>>

fnVars == <<fn_pc, fn_in, fn_enum, fn_match, fn_base, fn_out>>

----------------------------------------------------------------------------
(* Bounds of the model *)

\* most declared values of a schema
MaxValues == 3
\* declared numbers range over -1 .. MaxNumber
MaxNumber == 0
\* longest input string of the normalizer functions
MaxStrLen == 3

----------------------------------------------------------------------------
(* absl/strings/ascii.h *)

ascii_isupper(c) == c \in 65..90
ascii_islower(c) == c \in 97..122
ascii_isalpha(c) == ascii_isupper(c) \/ ascii_islower(c)
ascii_isdigit(c) == c \in 48..57
ascii_tolower(c) == IF ascii_isupper(c) THEN c + 32 ELSE c
ascii_toupper(c) == IF ascii_islower(c) THEN c - 32 ELSE c

----------------------------------------------------------------------------
(* Identifier normalizer *)

RECURSIVE camelToSnakeLoop(_, _, _, _)
camelToSnakeLoop(input, k, res, is_first_character) ==
    IF k > Len(input) THEN res
    ELSE LET c == input[k] IN
         IF c = 95
         THEN \* result += '_'; continue;  (is_first_character is left alone)
              camelToSnakeLoop(input, k + 1, Append(res, 95),
                               is_first_character)
         ELSE camelToSnakeLoop(input, k + 1,
                  Append(IF ~is_first_character /\ ascii_isupper(c)
                         THEN Append(res, 95) ELSE res,
                         ascii_tolower(c)),
                  FALSE)

camelToSnakeCase(input) == camelToSnakeLoop(input, 1, <<>>, TRUE)

RECURSIVE screamingSnakeLoop(_, _, _, _)
screamingSnakeLoop(input, k, res, cap_next_letter) ==
    IF k > Len(input) THEN res
    ELSE LET c == input[k] IN
         IF ascii_isalpha(c)
         THEN screamingSnakeLoop(input, k + 1,
                  Append(res, IF cap_next_letter THEN ascii_toupper(c)
                                                 ELSE ascii_tolower(c)),
                  FALSE)
         ELSE IF ascii_isdigit(c)
         THEN screamingSnakeLoop(input, k + 1, Append(res, c), TRUE)
         ELSE screamingSnakeLoop(input, k + 1, res, TRUE)

screamingSnakeToUpperCamelCase(input) ==
    screamingSnakeLoop(input, 1, <<>>, TRUE)

----------------------------------------------------------------------------
(* Prefix stripping and the Rust name of one enum value (enumValues) *)

\* the initializer_list of prefixes built from desc.name()
Prefixes(name) ==
    << name, screamingSnakeToUpperCamelCase(name), camelToSnakeCase(name) >>

\* absl::StartsWith, the case-sensitive test
StartsWith(text, prefix) ==
    /\ Len(text) >= Len(prefix)
    /\ \A k \in 1..Len(prefix) : text[k] = prefix[k]

\* absl::StartsWithIgnoreCase
StartsWithIgnoreCase(text, prefix) ==
    /\ Len(text) >= Len(prefix)
    /\ \A k \in 1..Len(prefix) :
           ascii_tolower(text[k]) = ascii_tolower(prefix[k])

\* the first prefix, in order, that the value name starts with; 0 when none
MatchedPrefix(value_name, prefixes) ==
    LET hits == { k \in 1..Len(prefixes) :
                      StartsWithIgnoreCase(value_name, prefixes[k]) }
    IN IF hits = {} THEN 0
       ELSE CHOOSE k \in hits : \A m \in hits : k <= m

\* absl::ConsumePrefix(&s, "_")
ConsumeUnderscore(s) ==
    IF Len(s) > 0 /\ s[1] = 95 THEN SubSeq(s, 2, Len(s)) ELSE s

\* base_value_name after the prefix loop
StripPrefix(value_name, prefixes) ==
    LET m == MatchedPrefix(value_name, prefixes) IN
    IF m = 0 THEN value_name
    ELSE ConsumeUnderscore(
             SubSeq(value_name, Len(prefixes[m]) + 1, Len(value_name)))

\* base_value_name after the empty-remainder fallback
BaseValueName(value_name, prefixes) ==
    LET stripped == StripPrefix(value_name, prefixes) IN
    IF stripped = <<>> THEN value_name ELSE stripped

\* rust_value_name: normalized, then the digit-leading guard.
\* rust_value_name[0] of an empty std::string is '\0', which is no digit.
RustValueName(value_name, prefixes) ==
    LET n == screamingSnakeToUpperCamelCase(
                 BaseValueName(value_name, prefixes)) IN
    IF n # <<>> /\ ascii_isdigit(n[1]) THEN <<95>> \o n ELSE n

----------------------------------------------------------------------------
(* Strings used as inputs *)

Str_MyEnum      == <<77, 121, 69, 110, 117, 109>>
Str_Myenum      == <<77, 121, 101, 110, 117, 109>>
Str_my_enum     == <<109, 121, 95, 101, 110, 117, 109>>
Str_MY_ENUM_FOO == <<77, 89, 95, 69, 78, 85, 77, 95, 70, 79, 79>>
Str_FOO         == <<70, 79, 79>>
Str_Foo         == <<70, 111, 111>>
Str_BAR         == <<66, 65, 82>>
Str_BAZ         == <<66, 65, 90>>
Str_AB          == <<65, 66>>

\* 'A', 'b', '_', '2': an uppercase letter, a lowercase letter, the
\* underscore and a digit
Alphabet == {65, 98, 95, 50}

StringsUpTo(n) == UNION { [1..k -> Alphabet] : k \in 0..n }

FnInputs == StringsUpTo(MaxStrLen) \cup {Str_MY_ENUM_FOO, Str_MyEnum}

FnEnumNames == {Str_MyEnum, Str_AB}

----------------------------------------------------------------------------
(* Specification of the normalizer functions applied to bounded inputs *)

NoString == <<>>

GenIdle ==
    /\ desc = [name |-> Str_MyEnum, values |-> <<>>, is_closed |-> FALSE]
    /\ pc = "idle"
    /\ i = 0
    /\ result = <<>>
    /\ capacity = 0
    /\ epoch = 0
    /\ seen_by_name = {}
    /\ seen_by_number = <<>>
    /\ outcome = <<>>
    /\ sink = <<>>
    /\ sink0 = <<>>
    /\ conv_in = 0
    /\ conv = [tag |-> "none", val |-> 0]
    /\ back = 0

FnIdle ==
    /\ fn_pc = "ready"
    /\ fn_enum = NoString
    /\ fn_match = 0
    /\ fn_base = NoString
    /\ fn_out = NoString

InitFn ==
    /\ GenIdle
    /\ FnIdle
    /\ fn_in \in FnInputs

CallCamelToSnake ==
    /\ fn_pc = "ready"
    /\ fn_out' = camelToSnakeCase(fn_in)
    /\ fn_pc' = "snake"
    /\ UNCHANGED <<fn_in, fn_enum, fn_match, fn_base>>
    /\ UNCHANGED genVars

CallScreamingSnakeToUpperCamel ==
    /\ fn_pc = "ready"
    /\ fn_out' = screamingSnakeToUpperCamelCase(fn_in)
    /\ fn_pc' = "camel"
    /\ UNCHANGED <<fn_in, fn_enum, fn_match, fn_base>>
    /\ UNCHANGED genVars

\* the body of one iteration of enumValues up to rust_value_name, for a value
\* named fn_in of an enum named name
CallRustValueName ==
    /\ fn_pc = "ready"
    /\ fn_in # <<>>
    /\ \E name \in FnEnumNames :
          /\ fn_enum' = name
          /\ fn_match' = MatchedPrefix(fn_in, Prefixes(name))
          /\ fn_base' = BaseValueName(fn_in, Prefixes(name))
          /\ fn_out' = RustValueName(fn_in, Prefixes(name))
    /\ fn_pc' = "value"
    /\ UNCHANGED fn_in
    /\ UNCHANGED genVars

NextFn ==
    \/ CallCamelToSnake
    \/ CallScreamingSnakeToUpperCamel
    \/ CallRustValueName

SpecFn == InitFn /\ [][NextFn]_vars

----------------------------------------------------------------------------
(* The schemas GenerateEnumDefinition is called on *)

Numbers == -1..MaxNumber

ValueNames == {Str_MY_ENUM_FOO, Str_FOO, Str_BAR, Str_BAZ}

ValueDecls == [name : ValueNames, number : Numbers]

\* A descriptor's values have pairwise distinct symbolic names, and the first
\* value of an open enum has number 0 (both enforced when the descriptor is
\* built); the list of values may be empty only for a hand-built descriptor.
ValueLists ==
    UNION { { s \in [1..k -> ValueDecls] :
                \A a, b \in 1..k : a # b => s[a].name # s[b].name }
            : k \in 0..MaxValues }

Schemas ==
    { d \in [name : {Str_MyEnum}, values : ValueLists, is_closed : BOOLEAN] :
        (~d.is_closed /\ Len(d.values) > 0) => d.values[1].number = 0 }

\* text emitted into the sink before this enum by the same compilation pass
PriorBlock ==
    [variants |-> <<>>, default_int_value |-> <<48>>,
     impl_from_i32 |-> [kind |-> "From", known_values_pattern |-> <<>>]]

\* arguments tried on the generated integer-to-enum conversion: the ends of
\* the i32 range, the declared numbers and their neighbours
IntInputs == {-2147483647 - 1, 2147483647} \cup (-2..(MaxNumber + 1))

----------------------------------------------------------------------------
(* absl::StrCat of an int32, and the reading of an integer literal *)

RECURSIVE Digits(_)
Digits(n) ==
    IF n < 10 THEN <<48 + n>> ELSE Digits(n \div 10) \o <<48 + (n % 10)>>

StrCat(n) == IF n < 0 THEN <<45>> \o Digits(0 - n) ELSE Digits(n)

RECURSIVE ParseDigits(_, _, _)
ParseDigits(text, k, acc) ==
    IF k > Len(text) THEN acc
    ELSE ParseDigits(text, k + 1, 10 * acc + (text[k] - 48))

\* the value of an i32 literal of the generated code
ParseI32(text) ==
    IF Len(text) > 0 /\ text[1] = 45
    THEN 0 - ParseDigits(text, 2, 0)
    ELSE ParseDigits(text, 1, 0)

\* the alternatives of a pattern "a|b|c"
RECURSIVE PatternAlternatives(_, _, _)
PatternAlternatives(text, k, cur) ==
    IF k > Len(text) THEN (IF cur = <<>> THEN <<>> ELSE <<cur>>)
    ELSE IF text[k] = 124
    THEN <<cur>> \o PatternAlternatives(text, k + 1, <<>>)
    ELSE PatternAlternatives(text, k + 1, Append(cur, text[k]))

\* matches!(val, $known_values_pattern$)
Matches(val, pattern) ==
    LET alts == PatternAlternatives(pattern, 1, <<>>) IN
    \E a \in 1..Len(alts) : ParseI32(alts[a]) = val

----------------------------------------------------------------------------
(* enumValues: set-up and one loop iteration *)

value_count == Len(desc.values)

\* ABSL_CHECK(desc.value_count() > 0)
ValueCountCheckSkipped(d) == TRUE
ValueCountCheck(d) == Len(d.values) > 0

\* result.reserve(desc.value_count())
ReserveNothing(count) == 0
Reserve(count) == count

\* seen_by_name.insert(rust_value_name)
SeenByNameInsertDropped(seen, name) == seen
SeenByNameInsert(seen, name) == seen \cup {name}

\* seen_by_number.insert({number, &result.back()})
SeenByNumberInsertDropped(map, number, ptr) == map
SeenByNumberInsert(map, number, ptr) == (number :> ptr) @@ map

\* result.push_back(RustEnumValue{...})
PushFront(vec, elem) == <<elem>> \o vec
PushBack(vec, elem) == Append(vec, elem)

\* capacity of a std::vector after a push_back that had to grow it
GrownCapacity(cap) == IF cap = 0 THEN 1 ELSE 2 * cap

\* the Rust name of the declared value at position j (1-based)
ValueRustName(j) == RustValueName(desc.values[j].name, Prefixes(desc.name))

InitGen ==
    /\ desc \in Schemas
    /\ pc = "start"
    /\ i = 0
    /\ result = <<>>
    /\ capacity = 0
    /\ epoch = 0
    /\ seen_by_name = {}
    /\ seen_by_number = <<>>
    /\ outcome = <<>>
    /\ sink0 \in {<<>>, <<PriorBlock>>}
    /\ sink = sink0
    /\ conv_in = 0
    /\ conv = [tag |-> "none", val |-> 0]
    /\ back = 0

Init ==
    /\ InitGen
    /\ FnIdle
    /\ fn_in = NoString

genRest == <<desc, sink, sink0, conv_in, conv, back>>

\* GenerateEnumDefinition on an enum with no values: ABSL_CHECK fails and the
\* process aborts before anything is emitted
CheckFails ==
    /\ pc = "start"
    /\ ~ValueCountCheck(desc)
    /\ pc' = "aborted"
    /\ UNCHANGED <<i, result, capacity, epoch, seen_by_name, seen_by_number,
                   outcome>>
    /\ UNCHANGED genRest
    /\ UNCHANGED fnVars

\* GenerateEnumDefinition up to the loop of enumValues: the check passes, the
\* containers are created and reserved
EnterEnumValues ==
    /\ pc = "start"
    /\ ValueCountCheck(desc)
    /\ pc' = "loop"
    /\ i' = 0
    /\ result' = <<>>
    /\ capacity' = Reserve(value_count)
    /\ epoch' = 0
    /\ seen_by_name' = {}
    /\ seen_by_number' = <<>>
    /\ outcome' = <<>>
    /\ UNCHANGED genRest
    /\ UNCHANGED fnVars

\* the normalized name was seen: continue
Discard ==
    /\ pc = "loop"
    /\ i < value_count
    /\ ValueRustName(i + 1) \in seen_by_name
    /\ i' = i + 1
    /\ outcome' = Append(outcome, "discarded")
    /\ UNCHANGED <<pc, result, capacity, epoch, seen_by_name, seen_by_number>>
    /\ UNCHANGED genRest
    /\ UNCHANGED fnVars

\* the number was seen: it->second->aliases.push_back(rust_value_name).
\* Through a pointer into a buffer that was reallocated since, the write is
\* undefined: it may land, be lost, or crash the generator.
AddAlias ==
    /\ pc = "loop"
    /\ i < value_count
    /\ LET rust_value_name == ValueRustName(i + 1)
           number == desc.values[i + 1].number
       IN /\ rust_value_name \notin seen_by_name
          /\ number \in DOMAIN seen_by_number
          /\ LET ptr == seen_by_number[number]
                 landed == [result EXCEPT ![ptr.idx].aliases =
                                Append(@, rust_value_name)]
             IN IF ptr.epoch = epoch
                THEN result' = landed /\ pc' = pc
                ELSE \E ub \in {"landed", "lost", "crashed"} :
                        /\ result' = IF ub = "landed" THEN landed ELSE result
                        /\ pc' = IF ub = "crashed" THEN "crashed" ELSE pc
          /\ seen_by_name' = SeenByNameInsert(seen_by_name, rust_value_name)
    /\ i' = i + 1
    /\ outcome' = Append(outcome, "alias")
    /\ UNCHANGED <<capacity, epoch, seen_by_number>>
    /\ UNCHANGED genRest
    /\ UNCHANGED fnVars

\* first value with this number: result.push_back, which reallocates the
\* buffer when it is full, and the pointer to the new element is recorded
AddCanonical ==
    /\ pc = "loop"
    /\ i < value_count
    /\ LET rust_value_name == ValueRustName(i + 1)
           number == desc.values[i + 1].number
           grows == Len(result) = capacity
       IN /\ rust_value_name \notin seen_by_name
          /\ number \notin DOMAIN seen_by_number
          /\ result' = PushBack(result, [name |-> rust_value_name,
                                         number |-> number,
                                         aliases |-> <<>>])
          /\ capacity' = IF grows THEN GrownCapacity(capacity) ELSE capacity
          /\ epoch' = IF grows THEN epoch + 1 ELSE epoch
          /\ seen_by_number' =
                 SeenByNumberInsert(seen_by_number, number,
                                    [epoch |-> epoch', idx |-> Len(result')])
          /\ seen_by_name' = SeenByNameInsert(seen_by_name, rust_value_name)
    /\ i' = i + 1
    /\ outcome' = Append(outcome, "canonical")
    /\ UNCHANGED pc
    /\ UNCHANGED genRest
    /\ UNCHANGED fnVars

----------------------------------------------------------------------------
(* GenerateEnumDefinition: the emitted block *)

\* $variants$: one constant per canonical value, followed by its aliases
RECURSIVE AliasConsts(_, _, _)
AliasConsts(aliases, number_str, k) ==
    IF k > Len(aliases) THEN <<>>
    ELSE <<[name |-> aliases[k], number |-> number_str]>>
         \o AliasConsts(aliases, number_str, k + 1)

RECURSIVE Variants(_, _)
Variants(values, k) ==
    IF k > Len(values) THEN <<>>
    ELSE LET number_str == StrCat(values[k].number) IN
         <<[name |-> values[k].name, number |-> number_str]>>
         \o AliasConsts(values[k].aliases, number_str, 1)
         \o Variants(values, k + 1)

\* $known_values_pattern$: each canonical number, then "|" except after the
\* last one
RECURSIVE KnownValuesPattern(_, _)
KnownValuesPattern(values, k) ==
    IF k > Len(values) THEN <<>>
    ELSE StrCat(values[k].number)
         \o (IF k < Len(values) THEN <<124>> ELSE <<>>)
         \o KnownValuesPattern(values, k + 1)

\* $impl_from_i32$
ImplAlwaysTryFrom(is_closed, values) ==
    [kind |-> "TryFrom", known_values_pattern |-> KnownValuesPattern(values, 1)]
ImplFromI32(is_closed, values) ==
    IF is_closed
    THEN [kind |-> "TryFrom",
          known_values_pattern |-> KnownValuesPattern(values, 1)]
    ELSE [kind |-> "From", known_values_pattern |-> <<>>]

\* enumValues returns and the whole definition is emitted into the sink.
\* desc.value(0) of an enum without values is read out of bounds: any number.
Emit ==
    /\ pc = "loop"
    /\ i >= value_count
    /\ \E default_number \in
            (IF value_count > 0 THEN {desc.values[1].number} ELSE Numbers) :
          sink' = Append(sink,
                    [variants |-> Variants(result, 1),
                     default_int_value |-> StrCat(default_number),
                     impl_from_i32 |-> ImplFromI32(desc.is_closed, result)])
    /\ pc' = "emitted"
    /\ UNCHANGED <<desc, i, result, capacity, epoch, seen_by_name,
                   seen_by_number, outcome, sink0, conv_in, conv, back>>
    /\ UNCHANGED fnVars

----------------------------------------------------------------------------
(* The conversions of the generated code *)

\* the block emitted for this enum
Generated == sink[Len(sink)]

\* TryFrom<i32>::try_from (closed) or From<i32>::from (open)
FromInteger ==
    /\ pc = "emitted"
    /\ \E val \in IntInputs :
          /\ conv_in' = val
          /\ conv' =
               IF Generated.impl_from_i32.kind = "TryFrom"
               THEN IF Matches(val, Generated.impl_from_i32.known_values_pattern)
                    THEN [tag |-> "Ok", val |-> val]
                    ELSE [tag |-> "Err", val |-> val]
               ELSE [tag |-> "Ok", val |-> val]
    /\ pc' = "converted"
    /\ UNCHANGED <<desc, i, result, capacity, epoch, seen_by_name,
                   seen_by_number, outcome, sink, sink0, back>>
    /\ UNCHANGED fnVars

\* From<Enum> for i32: val.0
ToInteger ==
    /\ pc = "converted"
    /\ conv.tag = "Ok"
    /\ back' = conv.val
    /\ pc' = "roundtrip"
    /\ UNCHANGED <<desc, i, result, capacity, epoch, seen_by_name,
                   seen_by_number, outcome, sink, sink0, conv_in, conv>>
    /\ UNCHANGED fnVars

Next ==
    \/ CheckFails
    \/ EnterEnumValues
    \/ Discard
    \/ AddAlias
    \/ AddCanonical
    \/ Emit
    \/ FromInteger
    \/ ToInteger

Spec == Init /\ [][Next]_vars

----------------------------------------------------------------------------
(* Properties of enumValues and of the generated conversions, under Spec *)

Range(f) == { f[k] : k \in DOMAIN f }

DeclaredNumbers == { desc.values[j].number : j \in 1..value_count }

\* the Rust names of the declared values, by position
RustNames == [j \in 1..value_count |-> ValueRustName(j)]

\* the declared value at j normalizes to the name of an earlier declared value
NameCollides(nm, j) == \E k \in 1..(j - 1) : nm[k] = nm[j]

\* the declared values processed so far that no earlier name shadows
Kept(nm) == { j \in 1..i : ~NameCollides(nm, j) }

\* position of the first declared value among kept with number n
FirstKept(kept, n) ==
    CHOOSE j \in kept :
        /\ desc.values[j].number = n
        /\ \A k \in kept : desc.values[k].number = n => j <= k

\* every name recorded in the canonical list, canonical or alias
RecordedNames ==
    UNION { {result[e].name} \cup Range(result[e].aliases)
            : e \in 1..Len(result) }

RECURSIVE RecordedCount(_)
RecordedCount(e) ==
    IF e > Len(result) THEN 0
    ELSE 1 + Len(result[e].aliases) + RecordedCount(e + 1)

InEnumValues == pc \in {"loop", "emitted"}

Returned == pc \in {"emitted", "converted", "roundtrip"}

\* C1: for a closed enum, from_integer(n) succeeds iff n is the number of at
\* least one declared value (aliases and values discarded by a name collision
\* included); where it succeeds to_integer(from_integer(n)) = n, and
\* elsewhere it fails with UnknownEnumValue carrying n.
C1_ClosedAcceptsDeclaredNumbers ==
    (desc.is_closed /\ pc \in {"converted", "roundtrip"}) =>
        /\ conv.tag = "Ok" <=> conv_in \in DeclaredNumbers
        /\ conv.tag # "Ok" => (conv.tag = "Err" /\ conv.val = conv_in)
        /\ pc = "roundtrip" => back = conv_in

\* C2: for an open enum, from_integer(n) succeeds for every 32-bit n and
\* to_integer(from_integer(n)) = n, also for n that no declared value has.
C2_OpenRoundTrip ==
    (~desc.is_closed /\ pc \in {"converted", "roundtrip"}) =>
        /\ conv.tag = "Ok"
        /\ conv.val = conv_in
        /\ pc = "roundtrip" => back = conv_in

C2_Witness ==
    /\ ~desc.is_closed
    /\ pc = "roundtrip"
    /\ conv_in \notin DeclaredNumbers
    /\ conv_in = 2147483647
    /\ back = conv_in

\* C3: each declared value processed so far took exactly one of the three
\* branches (canonical, alias of the entry with its number, discarded), is
\* recorded exactly once unless discarded, and is discarded iff its
\* normalized name equals that of an earlier declared value, whatever the
\* numbers.
C3_OneOutcomeEach ==
    InEnumValues =>
      LET nm == RustNames
          kept == Kept(nm)
      IN
        /\ Len(outcome) = i
        /\ \A j \in 1..i :
              /\ outcome[j] \in {"canonical", "alias", "discarded"}
              /\ outcome[j] = "discarded" <=> NameCollides(nm, j)
              /\ outcome[j] = "canonical" =>
                    \E e \in 1..Len(result) :
                        /\ result[e].name = nm[j]
                        /\ result[e].number = desc.values[j].number
              /\ outcome[j] = "alias" =>
                    \E e \in 1..Len(result) :
                        /\ result[e].number = desc.values[j].number
                        /\ result[e].name # nm[j]
                        /\ nm[j] \in Range(result[e].aliases)
        /\ RecordedCount(1) = Cardinality(kept)
        /\ Cardinality(RecordedNames) = Cardinality(kept)
        /\ seen_by_name = RecordedNames

C3_Witness ==
    /\ Returned
    /\ \E a, b, c \in 1..i :
          /\ outcome[a] = "canonical"
          /\ outcome[b] = "alias"
          /\ outcome[c] = "discarded"
          /\ \E k \in 1..(c - 1) :
                /\ ValueRustName(k) = ValueRustName(c)
                /\ desc.values[k].number # desc.values[c].number

\* C4: after every iteration and in the returned list, no two canonical
\* entries have the same number, and the entries are in the order in which
\* each distinct number first occurs among the values not discarded.
C4_UniqueNumbersInFirstSeenOrder ==
    InEnumValues =>
      LET kept == Kept(RustNames) IN
        /\ { result[e].number : e \in 1..Len(result) }
             = { desc.values[j].number : j \in kept }
        /\ \A a, b \in 1..Len(result) :
              a < b =>
                 /\ result[a].number # result[b].number
                 /\ FirstKept(kept, result[a].number)
                      < FirstKept(kept, result[b].number)

C4_Witness ==
    /\ Returned
    /\ Len(result) = 2
    /\ LET nm == RustNames IN
       \E j \in 1..i :
          /\ NameCollides(nm, j)
          /\ desc.values[j].number = result[2].number
          /\ j < FirstKept(Kept(nm), result[2].number)

NamesDistinct ==
    LET nm == RustNames IN
    \A a, b \in 1..value_count : a # b => nm[a] # nm[b]

NumbersDistinct ==
    \A a, b \in 1..value_count :
        a # b => desc.values[a].number # desc.values[b].number

\* C5 as stated: the number of canonical values is at most the number of
\* declared values, with equality iff no two declared values normalize to
\* the same name.
C5_EqualIffNamesDistinct ==
    Returned =>
        /\ Len(result) <= value_count
        /\ Len(result) = value_count <=> NamesDistinct

\* C5 amended: the number of canonical values is at most the number of
\* declared values, with equality iff no two declared values normalize to
\* the same name and no two declared values have the same number.
C5_EqualIffNamesAndNumbersDistinct ==
    Returned =>
        /\ Len(result) <= value_count
        /\ Len(result) = value_count <=> (NamesDistinct /\ NumbersDistinct)

C5_Witness ==
    /\ Returned
    /\ NamesDistinct
    /\ ~NumbersDistinct
    /\ Len(result) < value_count

\* C6: on a schema without declared values the generation aborts before
\* anything is appended to the sink: the sink is as it was before the call.
C6_AbortLeavesSinkUntouched ==
    /\ value_count = 0 => (pc \in {"start", "aborted"} /\ sink = sink0)
    /\ pc = "aborted" => (value_count = 0 /\ sink = sink0)

C6_Witness ==
    /\ pc = "aborted"
    /\ value_count = 0
    /\ sink0 # <<>>
    /\ sink = sink0

\* C9: the canonical list never grows beyond the capacity reserved up front
\* (the number of declared values) and is never reallocated; every pointer
\* in the number-to-entry map points to the live entry with that number, and
\* every alias sits in the entry of its own number.
C9_PointersStayValid ==
    InEnumValues =>
        /\ capacity = value_count
        /\ Len(result) <= capacity
        /\ epoch = 0
        /\ \A n \in DOMAIN seen_by_number :
              /\ seen_by_number[n].epoch = epoch
              /\ seen_by_number[n].idx \in 1..Len(result)
              /\ result[seen_by_number[n].idx].number = n
        /\ \A e \in 1..Len(result) :
              \A a \in 1..Len(result[e].aliases) :
                 \E j \in 1..i :
                    /\ outcome[j] = "alias"
                    /\ RustNames[j] = result[e].aliases[a]
                    /\ desc.values[j].number = result[e].number

C9_Witness ==
    /\ Returned
    /\ Len(result) = 2
    /\ Len(result[2].aliases) = 1
    /\ outcome = <<"canonical", "canonical", "alias">>

----------------------------------------------------------------------------
(* Properties of the normalizer functions, checked under SpecFn *)

\* camelToSnake as the specification words it: underscores are copied, every
\* letter is lowercased, and an underscore is inserted before an uppercase
\* letter exactly when it is not the first character and the character
\* before it is not an underscore
RECURSIVE SnakeAsWorded(_, _)
SnakeAsWorded(s, k) ==
    IF k > Len(s) THEN <<>>
    ELSE LET c == s[k]
             piece == IF c = 95 THEN <<95>>
                      ELSE IF ascii_isupper(c) /\ k > 1 /\ s[k - 1] # 95
                      THEN <<95, ascii_tolower(c)>>
                      ELSE <<ascii_tolower(c)>>
         IN piece \o SnakeAsWorded(s, k + 1)

\* C7: for every input s, camelToSnake(s) copies underscores, lowercases
\* every letter and inserts an underscore before an uppercase letter exactly
\* when that letter is not the first character and does not directly follow
\* an underscore (no doubled underscore).
C7_CamelToSnakeAsWorded ==
    fn_pc = "snake" => fn_out = SnakeAsWorded(fn_in, 1)

C8_Case ==
    /\ fn_pc = "value"
    /\ fn_enum = Str_MyEnum
    /\ fn_in = Str_MY_ENUM_FOO

\* C8 as stated: for enum MyEnum and value MY_ENUM_FOO the candidate that
\* matches is the second one, screamingSnakeToUpperCamel(name), whose text is
\* MyEnum; the remainder is FOO and the normalized name is Foo.
C8_SecondPrefixMatches ==
    C8_Case =>
        /\ fn_match = 2
        /\ Prefixes(fn_enum)[2] = Str_MyEnum
        /\ fn_base = Str_FOO
        /\ fn_out = Str_Foo

\* C8 amended: for enum MyEnum and value MY_ENUM_FOO the first two candidates
\* (MyEnum and Myenum) do not match; the candidate that matches and is
\* stripped is the third one, camelToSnake(name), whose text is my_enum; the
\* remainder after also stripping one following underscore is FOO and the
\* normalized name is Foo.
C8_ThirdPrefixMatches ==
    C8_Case =>
        /\ fn_match = 3
        /\ Prefixes(fn_enum) = <<Str_MyEnum, Str_Myenum, Str_my_enum>>
        /\ fn_base = Str_FOO
        /\ fn_out = Str_Foo

C8_Witness == C8_Case /\ fn_out = Str_Foo

IsIdentifierChar(c) == ascii_isalpha(c) \/ ascii_isdigit(c) \/ c = 95

\* C10: for every declared value with a non-empty symbolic name made of
\* letters, digits and underscores, the normalized name computed by
\* enumValues is non-empty and starts with a letter or an underscore.
C10_NameIsIdentifier ==
    ( /\ fn_pc = "value"
      /\ fn_in # <<>>
      /\ \A k \in 1..Len(fn_in) : IsIdentifierChar(fn_in[k]) )
    => /\ fn_out # <<>>
       /\ ascii_isalpha(fn_out[1]) \/ fn_out[1] = 95

====
